---- MODULE Spec2Model ----
(***************************************************************************)
(* Model of plex_monitor.py: PlexMonitor (configuration loading, server    *)
(* connection, identifier extraction, record flattening, library export,   *)
(* batch orchestration) and main.                                          *)
(*                                                                         *)
(* Text is a sequence of one-character strings, so that str.replace,       *)
(* str.split, str.format and strftime are modelled by what they do.        *)
(* An Optional value is <<>> (None) or <<v>>.                              *)
(***************************************************************************)
EXTENDS Integers, Sequences, FiniteSets, TLC

VARIABLES
    pc,             \* position of the process: main / __init__ / monitor_library
    exit_code,      \* process exit code; -1 while the process runs
    config_file,    \* the configuration file on disk (config.json)
    config_created, \* _load_config wrote the default configuration
    connect_attempts, \* calls of PlexServer(url, token)
    connection,     \* "untried", "connected", or "failed" (_connect_plex's except ran)
    top_exception,  \* an exception reached the except clause of main
    idx,            \* 1-based position of monitor_all_libraries in the list
    calls,          \* library names passed to monitor_library, in call order
    failed,         \* positions whose monitor_library call raised
    sections_fetched, \* calls of plex.library.section that returned
    clock,          \* wall clock, whole seconds since midnight
    files,          \* output directory: file name -> CSV content
    library_name,   \* argument of the running / last monitor_library call
    items,          \* what library.all() returned to that call
    all_data,       \* all_data of that call
    date_str,       \* date_str of that call
    csv_path,       \* csv_path of that call (<<>> while not computed)
    outcome,        \* of that call: "running", "returned", "raised", "none"
    fail_step,      \* where that call raised
    log,            \* log lines of that call and of the fatal setup errors
    files_before,   \* the output directory when that call began
    history,        \* earlier calls of this run that returned after writing
    guids_in,       \* SpecImdb: the guids of the inspected item
    imdb_out        \* SpecImdb: <<>> or <<result of _get_imdb_info>>

vars == <<pc, exit_code, config_file, config_created, connect_attempts,
          connection, top_exception, idx,
          calls, failed, sections_fetched, clock, files, library_name, items,
          all_data, date_str, csv_path, outcome, fail_step, log, files_before,
          history, guids_in, imdb_out>>

----------------------------------------------------------------------------
(* Bounds *)

\* longest configured "libraries" list
MaxLibs == 2
\* seconds the wall clock may advance during one run
MaxClock == 1
\* longest guids list given to _get_imdb_info
MaxGuids == 3

----------------------------------------------------------------------------
(* Text *)

None == <<>>
Some(v) == <<v>>

RECURSIVE Concat(_)
Concat(parts) ==
    IF parts = <<>> THEN <<>> ELSE Head(parts) \o Concat(Tail(parts))

\* needle in s
Contains(s, needle) ==
    \E i \in 1..(Len(s) - Len(needle) + 1) :
        SubSeq(s, i, i + Len(needle) - 1) = needle

\* s.find(needle) as a 1-based index, 0 when absent
Find(s, needle) ==
    IF Contains(s, needle)
    THEN CHOOSE i \in 1..(Len(s) - Len(needle) + 1) :
            /\ SubSeq(s, i, i + Len(needle) - 1) = needle
            /\ \A j \in 1..(i - 1) : SubSeq(s, j, j + Len(needle) - 1) # needle
    ELSE 0

\* s.split(sep): the pieces between the non-overlapping occurrences of sep,
\* found left to right
RECURSIVE Split(_, _)
Split(s, sep) ==
    IF Find(s, sep) = 0
    THEN <<s>>
    ELSE <<SubSeq(s, 1, Find(s, sep) - 1)>>
         \o Split(SubSeq(s, Find(s, sep) + Len(sep), Len(s)), sep)

\* s.replace(' ', '_')
Replace(s) == [i \in 1..Len(s) |-> IF s[i] = " " THEN "_" ELSE s[i]]

Digit(n) == <<"0", "1", "2", "3", "4", "5", "6", "7", "8", "9">>[n + 1]
TwoDigits(n) == <<Digit((n \div 10) % 10), Digit(n % 10)>>

DateStr_minutes(c) ==
    <<"2", "0", "2", "4", "0", "1", "0", "1", "_">>
    \o TwoDigits((c \div 3600) % 24) \o TwoDigits((c \div 60) % 60)

\* strftime('%Y%m%d_%H%M%S') of the wall clock, on 2024-01-01
DateStr(c) ==
    <<"2", "0", "2", "4", "0", "1", "0", "1", "_">>
    \o TwoDigits((c \div 3600) % 24) \o TwoDigits((c \div 60) % 60)
    \o TwoDigits(c % 60)

----------------------------------------------------------------------------
(* _get_imdb_info *)

ImdbMarker == <<"i", "m", "d", "b", ":", "/", "/">>
ImdbUrlHead ==
    <<"h", "t", "t", "p", "s", ":", "/", "/", "w", "w", "w", ".", "i", "m",
      "d", "b", ".", "c", "o", "m", "/", "t", "i", "t", "l", "e", "/">>

\* the loop body's assignment, for a guid that contains the marker
ImdbOfGuid(guid) ==
    LET id == Split(guid, ImdbMarker)[2]
    IN  [imdb_id |-> Some(id), imdb_url |-> Some(ImdbUrlHead \o id \o <<"/">>)]

NoImdb == [imdb_id |-> None, imdb_url |-> None]

RECURSIVE GetImdbInfo_noBreak(_)
GetImdbInfo_noBreak(guids) ==
    IF guids = <<>> THEN NoImdb
    ELSE LET rest == GetImdbInfo_noBreak(Tail(guids))
         IN  IF rest # NoImdb THEN rest
             ELSE IF Contains(Head(guids), ImdbMarker)
                  THEN ImdbOfGuid(Head(guids))
                  ELSE NoImdb

RECURSIVE GetImdbInfo(_)
GetImdbInfo(guids) ==
    IF guids = <<>> THEN NoImdb
    ELSE IF Contains(Head(guids), ImdbMarker)
         THEN ImdbOfGuid(Head(guids))
         ELSE GetImdbInfo(Tail(guids))

----------------------------------------------------------------------------
(* Server content: the items library.all() can return *)

\* a movie whose attributes all read back
GoodMovie ==
    [kind |-> "Movie", title |-> <<"m">>, bad |-> FALSE, episodes |-> 0,
     raises |-> FALSE,
     guids |-> <<<<"t", "m", "d", "b", ":", "/", "/", "5">>,
                 <<"i", "m", "d", "b", ":", "/", "/", "t", "t", "1">>>>]
\* a movie with an attribute that makes _get_movie_data raise
BadMovie ==
    [kind |-> "Movie", title |-> <<"b">>, bad |-> TRUE, episodes |-> 0,
     raises |-> FALSE, guids |-> <<>>]
\* an item that is neither a Movie nor a Show
OtherItem ==
    [kind |-> "Other", title |-> <<"o">>, bad |-> FALSE, episodes |-> 0,
     raises |-> FALSE, guids |-> <<>>]
\* a show whose episode iteration yields n episodes and then ends or raises
ShowItem(n, raises) ==
    [kind |-> "Show", title |-> <<"s">>, bad |-> FALSE, episodes |-> n,
     raises |-> raises, guids |-> <<>>]

\* the i-th episode of a show
EpisodeOf(show, i) ==
    [title |-> <<"e", Digit(i)>>,
     guids |-> IF i = 1 THEN <<ImdbMarker \o <<"t", "t", "2">>>> ELSE <<>>]

LibraryContents ==
    { <<>>,
      <<OtherItem>>,
      <<GoodMovie>>,
      <<BadMovie>>,
      <<ShowItem(0, TRUE), GoodMovie>>,
      <<ShowItem(1, TRUE), GoodMovie>>,
      <<ShowItem(2, FALSE)>> }

----------------------------------------------------------------------------
(* Record flattening *)

MovieData(movie) ==
    [type |-> "Movie", title |-> movie.title, show_title |-> <<>>,
     imdb_id |-> GetImdbInfo(movie.guids).imdb_id,
     imdb_url |-> GetImdbInfo(movie.guids).imdb_url]

EpisodeData(show, episode) ==
    [type |-> "Episode", title |-> episode.title, show_title |-> show.title,
     imdb_id |-> GetImdbInfo(episode.guids).imdb_id,
     imdb_url |-> GetImdbInfo(episode.guids).imdb_url]

\* the for loop of _get_show_data from episode i on, inside its try
RECURSIVE ShowLoop(_, _, _)
ShowLoop(show, i, episodes_data) ==
    IF i > show.episodes
    THEN [data |-> episodes_data, error |-> show.raises]
    ELSE ShowLoop(show, i + 1,
                  Append(episodes_data, EpisodeData(show, EpisodeOf(show, i))))

GetShowData_dropOnError(show) ==
    IF ShowLoop(show, 1, <<>>).error
    THEN [data |-> <<>>, error |-> TRUE]
    ELSE ShowLoop(show, 1, <<>>)

\* _get_show_data: the records returned, and whether the except clause logged
GetShowData(show) == ShowLoop(show, 1, <<>>)

\* the item loop of monitor_library: ok is FALSE when an exception left it
RECURSIVE CollectAll(_, _, _)
CollectAll(its, data, errors) ==
    IF its = <<>> THEN [ok |-> TRUE, data |-> data, errors |-> errors]
    ELSE LET item == Head(its) IN
         IF item.kind = "Movie"
         THEN IF item.bad
              THEN [ok |-> FALSE, data |-> data, errors |-> errors]
              ELSE CollectAll(Tail(its), Append(data, MovieData(item)), errors)
         ELSE IF item.kind = "Show"
         THEN CollectAll(Tail(its), data \o GetShowData(item).data,
                         IF GetShowData(item).error
                         THEN Append(errors,
                                     <<"ERROR", "Error processing show", item.title>>)
                         ELSE errors)
         ELSE CollectAll(Tail(its), data, errors)

----------------------------------------------------------------------------
(* File names and CSV files *)

LibraryField == "{library}"
DateField == "{date}"
NameField == "{name}"

\* the built-in csv_filename 'plex_library_{library}_{date}.csv'
DefaultTemplate ==
    <<"p", "l", "e", "x", "_", "l", "i", "b", "r", "a", "r", "y", "_">>
    \o <<LibraryField, "_", DateField, ".", "c", "s", "v">>
\* a configured csv_filename without {date}: 'plex_library_{library}_latest.csv'
LatestTemplate ==
    <<"p", "l", "e", "x", "_", "l", "i", "b", "r", "a", "r", "y", "_">>
    \o <<LibraryField>> \o <<"_", "l", "a", "t", "e", "s", "t", ".", "c", "s", "v">>
\* a configured csv_filename with a field format() is not given: '{name}.csv'
BadTemplate == <<NameField, ".", "c", "s", "v">>

Templates == {DefaultTemplate, LatestTemplate, BadTemplate}

\* str.format raises KeyError for a field other than library and date
FormatRaises(template) ==
    \E i \in 1..Len(template) : template[i] = NameField

\* filename_template.format(library=..., date=...)
Format(template, library, date) ==
    Concat([i \in 1..Len(template) |->
              IF template[i] = LibraryField THEN library
              ELSE IF template[i] = DateField THEN date
              ELSE <<template[i]>>])

\* f"plex_library_{library_name.replace(' ', '_')}_latest.csv"
LatestPath(name) ==
    <<"p", "l", "e", "x", "_", "l", "i", "b", "r", "a", "r", "y", "_">> \o Replace(name)
    \o <<"_", "l", "a", "t", "e", "s", "t", ".", "c", "s", "v">>

\* the file left by writeheader() and writerows(rows) with all of it written
Csv(rows) == [header |-> TRUE, rows |-> rows]

\* what an interrupted write can leave of it: the truncated file, or the
\* header and fewer rows
PartialCsvs(rows) ==
    {[header |-> FALSE, rows |-> <<>>]}
    \cup {[header |-> TRUE, rows |-> SubSeq(rows, 1, k)] : k \in 0..(Len(rows) - 1)}

NoFiles == [p \in {} |-> Csv(<<>>)]

WriteFile(fs, path, content) ==
    [p \in (DOMAIN fs) \cup {path} |-> IF p = path THEN content ELSE fs[p]]

Exists(fs, path) == path \in DOMAIN fs

----------------------------------------------------------------------------
(* Configuration *)

Movies == <<"M", "o", "v", "i", "e", "s">>
TVShows == <<"T", "V", " ", "S", "h", "o", "w", "s">>
LibraryNames == {Movies, TVShows}

Placeholder == "YOUR_PLEX_TOKEN_HERE"

\* the default_config _load_config writes
DefaultConfig ==
    [exists |-> TRUE, json_ok |-> TRUE, has_keys |-> TRUE,
     plex_token |-> Placeholder, libraries |-> <<Movies, TVShows>>,
     csv_filename |-> DefaultTemplate]

LibraryLists ==
    UNION {[1..n -> LibraryNames] : n \in 0..MaxLibs}

\* what config.json can be when the process starts
ConfigFiles ==
    { [DefaultConfig EXCEPT !.exists = FALSE],
      [DefaultConfig EXCEPT !.json_ok = FALSE],
      [DefaultConfig EXCEPT !.has_keys = FALSE],
      DefaultConfig }
    \cup { [DefaultConfig EXCEPT !.plex_token = "token", !.libraries = l,
                                 !.csv_filename = t] :
             l \in LibraryLists, t \in Templates }

----------------------------------------------------------------------------
(* The process: main, PlexMonitor.__init__ *)

Libraries == config_file.libraries

ExportLocals ==
    <<library_name, items, all_data, date_str, csv_path, outcome, fail_step,
      files_before, history>>
Probe == <<guids_in, imdb_out>>

\* exit(1): SystemExit is no Exception, so no except clause on the way stops it
Exit1(lines) ==
    /\ pc' = "exit"
    /\ exit_code' = 1
    /\ log' = log \o lines

\* an exception that reaches the except clause of main
ToMain ==
    /\ top_exception' = TRUE
    /\ Exit1(<<<<"ERROR", "Monitoring failed", <<>>>>>>)

Init ==
    /\ pc = "load_config"
    /\ exit_code = -1
    /\ config_file \in ConfigFiles
    /\ config_created = FALSE
    /\ connect_attempts = 0
    /\ connection = "untried"
    /\ top_exception = FALSE
    /\ idx = 1
    /\ calls = <<>>
    /\ failed = {}
    /\ sections_fetched = 0
    /\ clock = 0
    /\ files = NoFiles
    /\ library_name = <<>>
    /\ items = <<>>
    /\ all_data = <<>>
    /\ date_str = <<>>
    /\ csv_path = <<>>
    /\ outcome = "none"
    /\ fail_step = "none"
    /\ log = <<>>
    /\ files_before = NoFiles
    /\ history = <<>>
    /\ guids_in = <<>>
    /\ imdb_out = <<>>

\* _load_config
LoadConfig ==
    /\ pc = "load_config"
    /\ IF ~config_file.exists
       THEN /\ config_file' = DefaultConfig
            /\ config_created' = TRUE
            /\ Exit1(<<<<"ERROR", "Config file not found", <<>>>>,
                       <<"INFO", "Created config", <<>>>>>>)
            /\ UNCHANGED top_exception
       ELSE IF ~config_file.json_ok
       THEN /\ ToMain
            /\ UNCHANGED <<config_file, config_created>>
       ELSE /\ pc' = "connect"
            /\ UNCHANGED <<exit_code, log, top_exception, config_file,
                           config_created>>
    /\ UNCHANGED <<connect_attempts, connection, idx, calls, failed, sections_fetched,
                   clock, files, ExportLocals, Probe>>

Connect_noPlaceholderCheck ==
    /\ pc = "connect"
    /\ IF ~config_file.has_keys
       THEN /\ Exit1(<<<<"ERROR", "Failed to connect to Plex", <<>>>>>>)
            /\ connection' = "failed"
            /\ UNCHANGED connect_attempts
       ELSE /\ connect_attempts' = connect_attempts + 1
            /\ \E connected \in BOOLEAN :
                 IF connected
                 THEN /\ pc' = "mkdir"
                      /\ connection' = "connected"
                      /\ UNCHANGED <<exit_code, log>>
                 ELSE /\ connection' = "failed"
                      /\ Exit1(<<<<"ERROR", "Failed to connect to Plex", <<>>>>>>)
    /\ UNCHANGED <<config_file, config_created, top_exception, idx, calls, failed,
                   sections_fetched, clock, files, ExportLocals, Probe>>

\* _connect_plex
Connect ==
    /\ pc = "connect"
    /\ IF ~config_file.has_keys
       THEN /\ Exit1(<<<<"ERROR", "Failed to connect to Plex", <<>>>>>>)
            /\ connection' = "failed"
            /\ UNCHANGED connect_attempts
       ELSE IF config_file.plex_token = Placeholder
       THEN /\ Exit1(<<<<"ERROR", "Please update config.json", <<>>>>>>)
            /\ UNCHANGED <<connect_attempts, connection>>
       ELSE /\ connect_attempts' = connect_attempts + 1
            /\ \E connected \in BOOLEAN :
                 IF connected
                 THEN /\ pc' = "mkdir"
                      /\ connection' = "connected"
                      /\ UNCHANGED <<exit_code, log>>
                 ELSE /\ connection' = "failed"
                      /\ Exit1(<<<<"ERROR", "Failed to connect to Plex", <<>>>>>>)
    /\ UNCHANGED <<config_file, config_created, top_exception, idx, calls, failed,
                   sections_fetched, clock, files, ExportLocals, Probe>>

\* __init__ after the connection: output_dir.mkdir(exist_ok=True)
MakeOutputDir ==
    /\ pc = "mkdir"
    /\ \E made \in BOOLEAN :
         IF made
         THEN /\ pc' = "loop"
              /\ UNCHANGED <<exit_code, log, top_exception>>
         ELSE ToMain
    /\ UNCHANGED <<config_file, config_created, connect_attempts, connection,
                   idx, calls, failed,
                   sections_fetched, clock, files, ExportLocals, Probe>>

----------------------------------------------------------------------------
(* monitor_all_libraries *)

CallMonitorLibrary_truncatesLatest ==
    /\ pc = "loop"
    /\ idx <= Len(Libraries)
    /\ pc' = "section"
    /\ calls' = Append(calls, Libraries[idx])
    /\ library_name' = Libraries[idx]
    /\ items' = <<>>
    /\ all_data' = <<>>
    /\ date_str' = <<>>
    /\ csv_path' = <<>>
    /\ outcome' = "running"
    /\ fail_step' = "none"
    /\ log' = <<<<"INFO", "Monitoring library", Libraries[idx]>>>>
    /\ files_before' = files
    /\ files' = WriteFile(files, LatestPath(Libraries[idx]),
                           [header |-> FALSE, rows |-> <<>>])
    /\ UNCHANGED <<exit_code, config_file, config_created, connect_attempts,
                   connection, top_exception, idx,
                   failed, sections_fetched, clock, history, Probe>>

\* the for loop reaches a library name and calls monitor_library with it
CallMonitorLibrary ==
    /\ pc = "loop"
    /\ idx <= Len(Libraries)
    /\ pc' = "section"
    /\ calls' = Append(calls, Libraries[idx])
    /\ library_name' = Libraries[idx]
    /\ items' = <<>>
    /\ all_data' = <<>>
    /\ date_str' = <<>>
    /\ csv_path' = <<>>
    /\ outcome' = "running"
    /\ fail_step' = "none"
    /\ log' = <<<<"INFO", "Monitoring library", Libraries[idx]>>>>
    /\ files_before' = files
    /\ UNCHANGED <<exit_code, config_file, config_created, connect_attempts,
                   connection, top_exception, idx,
                   failed, sections_fetched, clock, files, history, Probe>>

\* the list is exhausted: monitor_all_libraries and main return
Finish ==
    /\ pc = "loop"
    /\ idx > Len(Libraries)
    /\ pc' = "exit"
    /\ exit_code' = 0
    /\ log' = log \o <<<<"INFO", "Monitoring complete", <<>>>>>>
    /\ UNCHANGED <<config_file, config_created, connect_attempts, connection,
                   top_exception, idx, calls,
                   failed, sections_fetched, clock, files, ExportLocals, Probe>>

OnLibraryException_break ==
    /\ pc' = "loop"
    /\ idx' = Len(Libraries) + 1
    /\ UNCHANGED <<exit_code, top_exception>>

OnLibraryException_propagate ==
    /\ pc' = "exit"
    /\ exit_code' = 1
    /\ top_exception' = TRUE
    /\ UNCHANGED idx

\* except Exception in the for loop: log, continue
OnLibraryException ==
    /\ pc' = "loop"
    /\ idx' = idx + 1
    /\ UNCHANGED <<exit_code, top_exception>>

\* monitor_library raises at `step`, leaving the output directory as fs
Raised(step, fs, lines) ==
    /\ files' = fs
    /\ outcome' = "raised"
    /\ fail_step' = step
    /\ failed' = failed \cup {idx}
    /\ log' = log \o lines
                 \o <<<<"ERROR", "Error monitoring library", library_name>>,
                      <<"ERROR", "Failed to monitor", library_name>>>>
    /\ OnLibraryException
    /\ UNCHANGED history

\* monitor_library returns str(csv_path), having written or not
Returned(fs, lines, wrote) ==
    /\ files' = fs
    /\ outcome' = "returned"
    /\ log' = log \o lines
    /\ history' = IF wrote
                  THEN Append(history, [library |-> library_name, at |-> clock,
                                        path |-> csv_path])
                  ELSE history
    /\ pc' = "loop"
    /\ idx' = idx + 1
    /\ UNCHANGED <<exit_code, top_exception, failed, fail_step>>

----------------------------------------------------------------------------
(* monitor_library *)

Min(a, b) == IF a < b THEN a ELSE b

\* self.plex.library.section(library_name)
Section ==
    /\ pc = "section"
    /\ \E found \in BOOLEAN :
         IF found
         THEN /\ pc' = "collect"
              /\ sections_fetched' = sections_fetched + 1
              /\ UNCHANGED <<exit_code, top_exception, idx, failed, files,
                             outcome, fail_step, log, history>>
         ELSE /\ Raised("section", files, <<>>)
              /\ UNCHANGED sections_fetched
    /\ UNCHANGED <<config_file, config_created, connect_attempts, connection,
                   calls, clock, library_name,
                   items, all_data, date_str, csv_path, files_before, Probe>>

\* library.all() and the item loop
Collect ==
    /\ pc = "collect"
    /\ \/ /\ Raised("all", files, <<>>)
          /\ UNCHANGED <<items, all_data>>
       \/ \E content \in LibraryContents :
            LET r == CollectAll(content, <<>>, <<>>) IN
            /\ items' = content
            /\ all_data' = r.data
            /\ IF r.ok
               THEN /\ pc' = "filename"
                    /\ log' = log \o r.errors
                    /\ UNCHANGED <<exit_code, top_exception, idx, failed,
                                   files, outcome, fail_step, history>>
               ELSE Raised("flatten", files, r.errors)
    /\ UNCHANGED <<config_file, config_created, connect_attempts, connection,
                   calls, sections_fetched,
                   clock, library_name, date_str, csv_path, files_before, Probe>>

ShouldWrite_always(data) == TRUE

\* if all_data:
ShouldWrite(data) == data # <<>>

\* date_str, filename, csv_path; the else branch of `if all_data` returns
Filename ==
    /\ pc = "filename"
    /\ \E now \in clock..Min(clock + 1, MaxClock) :
         /\ clock' = now
         /\ date_str' = DateStr(now)
         /\ IF FormatRaises(config_file.csv_filename)
            THEN /\ Raised("format", files, <<>>)
                 /\ UNCHANGED csv_path
            ELSE /\ csv_path' = Format(config_file.csv_filename,
                                       Replace(library_name), DateStr(now))
                 /\ IF ShouldWrite(all_data)
                    THEN /\ pc' = "write_csv"
                         /\ UNCHANGED <<exit_code, top_exception, idx, failed,
                                        files, outcome, fail_step, log, history>>
                    ELSE Returned(files,
                                  <<<<"WARNING", "No items found in library",
                                      library_name>>>>, FALSE)
    /\ UNCHANGED <<config_file, config_created, connect_attempts, connection,
                   calls, sections_fetched,
                   library_name, items, all_data, files_before, Probe>>

TimestampedWrite_opensLatest ==
    WriteFile(WriteFile(files, csv_path, Csv(all_data)),
              LatestPath(library_name), [header |-> FALSE, rows |-> <<>>])

\* the output directory after the first with block ran to its end
TimestampedWrite == WriteFile(files, csv_path, Csv(all_data))

\* with open(csv_path, 'w') ...: writeheader, writerows
WriteCsv ==
    /\ pc = "write_csv"
    /\ \/ Raised("open_csv", files, <<>>)
       \/ \E partial \in PartialCsvs(all_data) :
            Raised("write_csv", WriteFile(files, csv_path, partial), <<>>)
       \/ /\ files' = TimestampedWrite
          /\ pc' = "write_latest"
          /\ log' = Append(log, <<"INFO", "Exported items", csv_path>>)
          /\ UNCHANGED <<exit_code, top_exception, idx, failed, outcome,
                         fail_step, history>>
    /\ UNCHANGED <<config_file, config_created, connect_attempts, connection,
                   calls, sections_fetched,
                   clock, library_name, items, all_data, date_str, csv_path,
                   files_before, Probe>>

LatestContent_headerOnly(rows) == Csv(<<>>)

\* what the second with block writes
LatestContent(rows) == Csv(rows)

\* with open(latest_path, 'w') ...: writeheader, writerows; return
WriteLatest ==
    /\ pc = "write_latest"
    /\ \/ Raised("open_latest", files, <<>>)
       \/ \E partial \in PartialCsvs(all_data) :
            Raised("write_latest",
                   WriteFile(files, LatestPath(library_name), partial), <<>>)
       \/ Returned(WriteFile(files, LatestPath(library_name),
                             LatestContent(all_data)),
                   <<<<"INFO", "Updated latest file", LatestPath(library_name)>>>>,
                   TRUE)
    /\ UNCHANGED <<config_file, config_created, connect_attempts, connection,
                   calls, sections_fetched,
                   clock, library_name, items, all_data, date_str, csv_path,
                   files_before, Probe>>

----------------------------------------------------------------------------
(* Specifications *)

Next ==
    \/ LoadConfig
    \/ Connect
    \/ MakeOutputDir
    \/ CallMonitorLibrary
    \/ Finish
    \/ Section
    \/ Collect
    \/ Filename
    \/ WriteCsv
    \/ WriteLatest

Spec == Init /\ [][Next]_vars

\* guid strings an item can carry
Guids ==
    { <<"i", "m", "d", "b", ":", "/", "/", "t", "t", "1">>,
      <<"t", "m", "d", "b", ":", "/", "/", "5">>,
      <<"i", "m", "d", "b", ":", "/", "/", "t", "t", "2">>,
      <<"i", "m", "d", "b", ":", "/", "/", "t", "t", "3", "i", "m", "d", "b", ":", "/", "/", "t", "t", "4">>,
      <<"x", "i", "m", "d", "b", ":", "/", "/">> }

GuidLists == UNION {[1..n -> Guids] : n \in 0..MaxGuids}

\* _get_imdb_info applied to an item whose guids are drawn from GuidLists
InitImdb ==
    /\ pc = "imdb"
    /\ exit_code = -1
    /\ config_file = DefaultConfig
    /\ config_created = FALSE
    /\ connect_attempts = 0
    /\ connection = "untried"
    /\ top_exception = FALSE
    /\ idx = 1
    /\ calls = <<>>
    /\ failed = {}
    /\ sections_fetched = 0
    /\ clock = 0
    /\ files = NoFiles
    /\ library_name = <<>>
    /\ items = <<>>
    /\ all_data = <<>>
    /\ date_str = <<>>
    /\ csv_path = <<>>
    /\ outcome = "none"
    /\ fail_step = "none"
    /\ log = <<>>
    /\ files_before = NoFiles
    /\ history = <<>>
    /\ guids_in \in GuidLists
    /\ imdb_out = <<>>

ApplyImdb ==
    /\ pc = "imdb"
    /\ imdb_out = <<>>
    /\ imdb_out' = <<GetImdbInfo(guids_in)>>
    /\ UNCHANGED <<pc, exit_code, config_file, config_created, connect_attempts,
                   connection, top_exception,
                   idx, calls, failed, sections_fetched, clock, files,
                   library_name, items, all_data, date_str, csv_path, outcome,
                   fail_step, log, files_before, history, guids_in>>

NextImdb == ApplyImdb

SpecImdb == InitImdb /\ [][NextImdb]_vars

----------------------------------------------------------------------------
(* Properties *)

Latest == LatestPath(library_name)

\* the file at path is the same in fs and gs: absent in both, or equal
SameFile(fs, gs, path) ==
    /\ Exists(fs, path) <=> Exists(gs, path)
    /\ Exists(fs, path) => fs[path] = gs[path]

HasLine(line) == \E i \in 1..Len(log) : log[i] = line

\* the item loop of the last call ran to its end
Collected ==
    /\ outcome # "none"
    /\ pc \notin {"section", "collect"}
    /\ fail_step \notin {"section", "all", "flatten"}

\* C1: monitor_all_libraries passes every configured library name to
\* monitor_library exactly once and in list order, whatever the outcome of
\* the earlier calls; a call that raises is logged and the loop goes on.
C1_EveryLibraryAttempted ==
    /\ Len(calls) <= Len(Libraries)
    /\ calls = SubSeq(Libraries, 1, Len(calls))
    /\ (pc = "exit" /\ (exit_code = 0 \/ calls # <<>>)) => calls = Libraries
    /\ \A i \in failed : i \in 1..Len(calls)
    /\ (outcome = "raised" /\ pc = "loop") =>
           HasLine(<<"ERROR", "Failed to monitor", library_name>>)

\* the first of two libraries raised and the second was still attempted
C1_Witness ==
    /\ pc = "exit"
    /\ Len(Libraries) = 2
    /\ 1 \in failed
    /\ calls = Libraries

\* C2 as stated: an export that returns wrote nothing and warned when the
\* library has zero items, and wrote both files, with identical content,
\* when the library has at least one item.
C2_Original ==
    outcome = "returned" =>
        /\ items = <<>> =>
               /\ files = files_before
               /\ HasLine(<<"WARNING", "No items found in library", library_name>>)
        /\ items # <<>> =>
               /\ Exists(files, csv_path)
               /\ Exists(files, Latest)
               /\ files[csv_path] = files[Latest]

\* C2 amended: what decides is the number of records, not of items. A call
\* that collected zero records writes neither file, and warns when it
\* returns; a call that collected at least one record and returns has
\* written both files, each with the header and the same rows in order.
C2_Amended ==
    /\ (outcome # "none" /\ all_data = <<>>) => files = files_before
    /\ outcome = "returned" =>
        /\ all_data = <<>> =>
               HasLine(<<"WARNING", "No items found in library", library_name>>)
        /\ all_data # <<>> =>
               /\ Exists(files, csv_path)
               /\ Exists(files, Latest)
               /\ files[csv_path] = files[Latest]
               /\ files[csv_path].header
               /\ files[Latest].rows = all_data
               /\ ~HasLine(<<"WARNING", "No items found in library", library_name>>)

\* a library with one item and no record: the call returns, nothing written
C2_Witness ==
    /\ outcome = "returned"
    /\ items = <<OtherItem>>
    /\ all_data = <<>>
    /\ ~Exists(files, csv_path)
    /\ ~Exists(files, Latest)

\* earlier calls of this run, for the same library, that wrote and returned
Earlier == {i \in 1..Len(history) : history[i].library = library_name}

\* C3 as stated, for the built-in csv_filename: a second export of the same
\* non-empty library never writes to the timestamped path of the first.
C3_Original ==
    (pc = "write_latest" /\ config_file.csv_filename = DefaultTemplate) =>
        \A i \in Earlier : history[i].path # csv_path

HasDateField(template) == \E i \in 1..Len(template) : template[i] = DateField

\* C3 amended: when the csv_filename template holds the plain {date} field
\* and the clock reads a different second than at the first export, the
\* second export's timestamped path differs from the first's. An export
\* writes to no path but its own timestamped path and the "latest" path, so
\* it leaves the first export's timestamped file as it was, unless that is
\* the "latest" path itself, while the one "latest" file is overwritten.
C3_Amended ==
    /\ outcome # "none" =>
           \A p \in (DOMAIN files) \cup (DOMAIN files_before) :
               p \notin {csv_path, Latest} => SameFile(files, files_before, p)
    /\ (pc = "write_latest" /\ HasDateField(config_file.csv_filename)) =>
           \A i \in Earlier :
               history[i].at # clock =>
                   /\ history[i].path # csv_path
                   /\ history[i].path # Latest =>
                          SameFile(files, files_before, history[i].path)
    /\ (outcome = "returned" /\ all_data # <<>>) =>
           files[Latest] = Csv(all_data)

\* the second export of a library, a second later than the first
C3_Witness ==
    /\ pc = "write_latest"
    /\ HasDateField(config_file.csv_filename)
    /\ \E i \in Earlier :
          /\ history[i].at # clock
          /\ Exists(files, history[i].path)
          /\ Exists(files, csv_path)

\* the records a well-behaved flattening yields for one item
RecordsOf(item) ==
    IF item.kind = "Show"
    THEN [j \in 1..item.episodes |-> EpisodeData(item, EpisodeOf(item, j))]
    ELSE IF item.kind = "Movie" THEN <<MovieData(item)>>
    ELSE <<>>

\* C4: a show contributes one record per episode enumerated before the
\* failure, in order; the failure is logged with the show's title, is not
\* raised to monitor_library, and the items after the show are processed.
C4_ShowFailureKeepsEpisodes ==
    /\ Collected =>
           /\ all_data = Concat([i \in 1..Len(items) |-> RecordsOf(items[i])])
           /\ \A i \in 1..Len(items) :
                  (items[i].kind = "Show" /\ items[i].raises) =>
                      HasLine(<<"ERROR", "Error processing show", items[i].title>>)
    /\ fail_step = "flatten" =>
           \E i \in 1..Len(items) : items[i].kind = "Movie" /\ items[i].bad

\* a show failed after one episode: its record is kept, the movie after it
\* was flattened too
C4_Witness ==
    /\ Collected
    /\ items = <<ShowItem(1, TRUE), GoodMovie>>
    /\ Len(all_data) = 2
    /\ all_data[1].type = "Episode"
    /\ all_data[2].type = "Movie"

PlaceholderConfig ==
    /\ config_file.exists
    /\ config_file.json_ok
    /\ config_file.has_keys
    /\ config_file.plex_token = Placeholder

Matching == {i \in 1..Len(guids_in) : Contains(guids_in[i], ImdbMarker)}
FirstMatching ==
    guids_in[CHOOSE i \in Matching : \A j \in Matching : i <= j]

\* all the text of a guid after the first occurrence of the marker
AfterMarker(guid) ==
    SubSeq(guid, Find(guid, ImdbMarker) + Len(ImdbMarker), Len(guid))

\* the text of a guid between the first occurrence of the marker and the
\* next one, or the end
UpToNextMarker(guid) ==
    IF Contains(AfterMarker(guid), ImdbMarker)
    THEN SubSeq(AfterMarker(guid), 1, Find(AfterMarker(guid), ImdbMarker) - 1)
    ELSE AfterMarker(guid)

\* C7 as stated: imdb_id is the text after the marker in the first guid
\* that contains it, imdb_url the title URL of that id; both null when no
\* guid contains the marker.
C7_Original ==
    imdb_out # <<>> =>
        IF Matching = {}
        THEN imdb_out[1] = NoImdb
        ELSE /\ imdb_out[1].imdb_id = Some(AfterMarker(FirstMatching))
             /\ imdb_out[1].imdb_url =
                    Some(ImdbUrlHead \o AfterMarker(FirstMatching) \o <<"/">>)

\* C7 amended: imdb_id is the text that follows the first occurrence of the
\* marker in the first guid that contains it, up to the next occurrence of
\* the marker in that guid if there is one; the rest as stated, and imdb_id
\* and imdb_url are both null or both non-null.
C7_Amended ==
    imdb_out # <<>> =>
        /\ (imdb_out[1].imdb_id = None) <=> (imdb_out[1].imdb_url = None)
        /\ IF Matching = {}
           THEN imdb_out[1] = NoImdb
           ELSE /\ imdb_out[1].imdb_id = Some(UpToNextMarker(FirstMatching))
                /\ imdb_out[1].imdb_url =
                       Some(ImdbUrlHead \o UpToNextMarker(FirstMatching) \o <<"/">>)

\* two guids contain the marker, the first of them twice
C7_Witness ==
    /\ imdb_out # <<>>
    /\ Cardinality(Matching) >= 2
    /\ UpToNextMarker(FirstMatching) # AfterMarker(FirstMatching)
    /\ imdb_out[1].imdb_id # None

C9_Original ==
    (/\ outcome = "raised"
     /\ fail_step \in {"open_latest", "write_latest"}
     /\ config_file.csv_filename = DefaultTemplate
     /\ Earlier # {}
     /\ Exists(files_before, Latest)
     /\ files_before[Latest].rows # <<>>) =>
        /\ Exists(files, csv_path)
        /\ files[csv_path] = Csv(all_data)
        /\ SameFile(files, files_before, Latest)

\* C9 amended: the timestamped CSV is complete before the "latest" CSV is
\* opened. If opening the "latest" file fails, the timestamped file stays
\* complete and the "latest" file, when it is another path, is as it was
\* before the export (stale, or absent). If the failure comes once the
\* "latest" file is open, that file is truncated: it holds the header and
\* fewer rows at most, not the previous content; the timestamped file, when
\* it is another path, stays complete.
C9_Amended ==
    /\ pc = "write_latest" =>
           /\ Exists(files, csv_path)
           /\ files[csv_path] = Csv(all_data)
    /\ (outcome = "raised" /\ fail_step = "open_latest") =>
           /\ Exists(files, csv_path)
           /\ files[csv_path] = Csv(all_data)
           /\ Latest # csv_path => SameFile(files, files_before, Latest)
    /\ (outcome = "raised" /\ fail_step = "write_latest") =>
           /\ Exists(files, Latest)
           /\ files[Latest] \in PartialCsvs(all_data)
           /\ Latest # csv_path =>
                  /\ Exists(files, csv_path)
                  /\ files[csv_path] = Csv(all_data)

\* opening the "latest" file failed: it still holds an earlier export's
\* other content, beside this run's timestamped file
C9_Witness ==
    /\ outcome = "raised"
    /\ fail_step = "open_latest"
    /\ Latest # csv_path
    /\ Exists(files, Latest)
    /\ files[Latest] # Csv(all_data)
    /\ files[Latest] = files_before[Latest]
    /\ files[csv_path] = Csv(all_data)

\* C10 as stated: when monitor_library returns, the "latest" file of the
\* library, if it exists, holds exactly the records of this export, and the
\* returned path names a file this export wrote.
C10_Original ==
    outcome = "returned" =>
        /\ Exists(files, Latest) => files[Latest] = Csv(all_data)
        /\ Exists(files, csv_path)
        /\ files[csv_path] = Csv(all_data)

\* C10 amended: when monitor_library returns with at least one record, the
\* "latest" file exists and holds exactly these records, and so does the
\* file at the returned path; when it returns with zero records it wrote
\* nothing: the "latest" file, if it exists, is what an earlier export left,
\* and the returned path names no file of this export.
C10_Amended ==
    outcome = "returned" =>
        IF all_data # <<>>
        THEN /\ Exists(files, Latest)
             /\ files[Latest] = Csv(all_data)
             /\ Exists(files, csv_path)
             /\ files[csv_path] = Csv(all_data)
        ELSE /\ SameFile(files, files_before, Latest)
             /\ SameFile(files, files_before, csv_path)

\* an export with zero records returned while the "latest" file holds the
\* rows of an earlier export
C10_Witness ==
    /\ outcome = "returned"
    /\ all_data = <<>>
    /\ Exists(files, Latest)
    /\ files[Latest].rows # <<>>
    /\ ~Exists(files, csv_path)

====
